---- MODULE Spec2Model ----
(***************************************************************************)
(* Model of the mapping-DSL parsers, the deterministic script generator,   *)
(* the artifact store / catalog and the generated orchestration script of  *)
(* app.py.                                                                  *)
(*                                                                         *)
(* Text is modelled as a sequence of one-character strings, so that the    *)
(* parsers scan, split and trim exactly as the Python code does.           *)
(***************************************************************************)
EXTENDS Integers, Sequences, FiniteSets, TLC

VARIABLES
    call,        \* one invocation of a parser: [fn, arg, ret, returned]
    clock,       \* wall clock in seconds, read by datetime.now()
    files,       \* directory generated_code: filename -> [code, by]
    catalog,     \* content of generated_code/file_index.json
    pc,          \* per request handler: position inside generate_fallback_code
    mapping_data,    \* per handler: the batch being generated
    scripts,         \* per handler: the list `scripts` (units incl. orchestration)
    saved_files,     \* per handler: the list `saved_files` / `index_data`
    existing_index,  \* per handler: the local `existing_index`
    run,         \* one execution of a generated orchestration script
    threaded,    \* whether the server handles requests concurrently
    request,     \* one call of generate_migration_code: assist, attempts, failures
    unit_run     \* one execution of a generated per-mapping routine

vars == <<call, clock, files, catalog, pc, mapping_data, scripts, saved_files,
          existing_index, run, threaded, request, unit_run>>

-----------------------------------------------------------------------------
(* Python str primitives over sequences of characters.                      *)

UPPER == <<"A","B","C","D","E","F","G","H","I","J","K","L","M",
           "N","O","P","Q","R","S","T","U","V","W","X","Y","Z">>
LOWER == <<"a","b","c","d","e","f","g","h","i","j","k","l","m",
           "n","o","p","q","r","s","t","u","v","w","x","y","z">>
DIGIT == {"0","1","2","3","4","5","6","7","8","9"}
Whitespace == {" "}
Quotes == {"'", "\""}

Range(s) == {s[i] : i \in 1..Len(s)}

\* c.lower()
lower_char(c) ==
    IF \E i \in 1..Len(UPPER) : UPPER[i] = c
    THEN LOWER[CHOOSE i \in 1..Len(UPPER) : UPPER[i] = c]
    ELSE c

\* s.lower()
lower(s) == [i \in 1..Len(s) |-> lower_char(s[i])]

\* c.upper()
upper_char(c) ==
    IF \E i \in 1..Len(LOWER) : LOWER[i] = c
    THEN UPPER[CHOOSE i \in 1..Len(LOWER) : LOWER[i] = c]
    ELSE c

\* s.upper()
upper(s) == [i \in 1..Len(s) |-> upper_char(s[i])]

\* the class \w of module re
IsWordChar(c) == c \in Range(UPPER) \cup Range(LOWER) \cup DIGIT \cup {"_"}

RECURSIVE lstrip_chars(_, _)
lstrip_chars(s, cs) ==
    IF s # <<>> /\ Head(s) \in cs THEN lstrip_chars(Tail(s), cs) ELSE s

RECURSIVE rstrip_chars(_, _)
rstrip_chars(s, cs) ==
    IF s # <<>> /\ s[Len(s)] \in cs
    THEN rstrip_chars(SubSeq(s, 1, Len(s) - 1), cs)
    ELSE s

\* s.strip(cs)
strip_chars(s, cs) == rstrip_chars(lstrip_chars(s, cs), cs)

\* s.strip()
strip(s) == strip_chars(s, Whitespace)

\* s[i:].startswith(pat), i counted from 1
occurs_at(s, pat, i) ==
    /\ i + Len(pat) - 1 <= Len(s)
    /\ SubSeq(s, i, i + Len(pat) - 1) = pat

\* s.find(pat) + 1: position of the first occurrence, 0 when there is none
find(s, pat) ==
    IF \E i \in 1..Len(s) : occurs_at(s, pat, i)
    THEN CHOOSE i \in 1..Len(s) :
            /\ occurs_at(s, pat, i)
            /\ \A j \in 1..(i - 1) : ~occurs_at(s, pat, j)
    ELSE 0

\* pat in s
contains(s, pat) == find(s, pat) # 0

startswith(s, pat) == occurs_at(s, pat, 1)

endswith(s, pat) == Len(pat) <= Len(s) /\ occurs_at(s, pat, Len(s) - Len(pat) + 1)

\* s.split(pat, 1)
split_once(s, pat) ==
    LET i == find(s, pat)
    IN  IF i = 0 THEN <<s>>
        ELSE <<SubSeq(s, 1, i - 1), SubSeq(s, i + Len(pat), Len(s))>>

\* s.split(pat)
RECURSIVE split(_, _)
split(s, pat) ==
    LET i == find(s, pat)
    IN  IF i = 0 THEN <<s>>
        ELSE <<SubSeq(s, 1, i - 1)>> \o split(SubSeq(s, i + Len(pat), Len(s)), pat)

\* re.sub(r'[^\w]', '_', s)
sanitize(s) == [i \in 1..Len(s) |-> IF IsWordChar(s[i]) THEN s[i] ELSE "_"]

\* re.search(r'\(([^)]+)\)', s): <<matched, group(1)>> of the leftmost match
group_at(s, i) ==
    /\ s[i] = "("
    /\ i + 1 <= Len(s)
    /\ s[i + 1] # ")"
    /\ \E j \in (i + 2)..Len(s) : s[j] = ")"

re_search_group(s) ==
    IF \E i \in 1..Len(s) : group_at(s, i)
    THEN LET i == CHOOSE k \in 1..Len(s) :
                     group_at(s, k) /\ \A m \in 1..(k - 1) : ~group_at(s, m)
             j == CHOOSE k \in (i + 2)..Len(s) :
                     s[k] = ")" /\ \A m \in (i + 2)..(k - 1) : s[m] # ")"
         IN  <<TRUE, SubSeq(s, i + 1, j - 1)>>
    ELSE <<FALSE, <<>>>>

\* d[k] = v on a dict kept in insertion order (a sequence of <<key, value>>)
dict_set(d, k, v) ==
    IF \E i \in 1..Len(d) : d[i][1] = k
    THEN [i \in 1..Len(d) |-> IF d[i][1] = k THEN <<k, v>> ELSE d[i]]
    ELSE Append(d, <<k, v>>)

\* d[kv[1]] = kv[2]
dict_put(d, kv) == dict_set(d, kv[1], kv[2])

dict_has(d, k) == \E i \in 1..Len(d) : d[i][1] = k

dict_get(d, k) == d[CHOOSE i \in 1..Len(d) : d[i][1] = k][2]

dict_keys(d) == [i \in 1..Len(d) |-> d[i][1]]

-----------------------------------------------------------------------------
(* Literals of the mapping DSL.                                             *)

ARROW == <<"-", ">">>
MAP_ == <<"M", "A", "P", ":">>
LPAREN_MAP == <<"(", "M", "A", "P", ":">>
COMMA == <<",">>
KEY_ == <<"K", "E", "Y", ":">>

-----------------------------------------------------------------------------
(* process_transformations                                                  *)

\* the character scan that splits the string into clauses
RECURSIVE split_transformations(_, _, _, _, _)
split_transformations(str, i, temp, map_depth, transformations) ==
    IF i > Len(str)
    THEN IF temp # <<>> THEN Append(transformations, strip(temp))
                        ELSE transformations
    ELSE LET char == str[i]
             depth == IF char = "(" /\ contains(temp, MAP_) THEN map_depth + 1
                      ELSE IF char = ")" /\ map_depth > 0 THEN map_depth - 1
                      ELSE map_depth
         IN  IF char = "," /\ depth = 0
             THEN split_transformations(str, i + 1, <<>>, depth,
                                        Append(transformations, strip(temp)))
             ELSE split_transformations(str, i + 1, Append(temp, char), depth,
                                        transformations)

\* the loop over map_items that fills value_maps
RECURSIVE parse_value_maps(_, _)
parse_value_maps(map_items, value_maps) ==
    IF map_items = <<>> THEN value_maps
    ELSE LET item == Head(map_items)
             val_parts == split_once(item, ARROW)
         IN  IF contains(item, ARROW)
             THEN parse_value_maps(Tail(map_items),
                      dict_set(value_maps,
                               strip_chars(strip(val_parts[1]), Quotes),
                               strip_chars(strip(val_parts[2]), Quotes)))
             ELSE parse_value_maps(Tail(map_items), value_maps)

\* faulty variant of parse_transform: the destination is taken untrimmed
parse_transform_untrimmed(transform) ==
    LET src_dest_parts == split_once(transform, ARROW)
    IN  <<strip(src_dest_parts[1]),
          [dest_field |-> src_dest_parts[2], has_value_maps |-> FALSE, value_maps |-> <<>>]>>

\* one clause: the entry it stores in mappings, as <<src_field, entry>>
parse_transform(transform) ==
    LET src_dest_parts == split_once(transform, ARROW)
        src_field == strip(src_dest_parts[1])
        dest_part == strip(src_dest_parts[2])
        dm == split_once(dest_part, LPAREN_MAP)
        map_part == IF endswith(dm[2], <<")">>)
                    THEN strip(SubSeq(dm[2], 1, Len(dm[2]) - 1))
                    ELSE dm[2]
    IN  IF contains(dest_part, LPAREN_MAP)
        THEN <<src_field, [dest_field |-> strip(dm[1]),
                           has_value_maps |-> TRUE,
                           value_maps |-> parse_value_maps(split(map_part, COMMA), <<>>)]>>
        ELSE <<src_field, [dest_field |-> dest_part,
                           has_value_maps |-> FALSE,
                           value_maps |-> <<>>]>>

\* the loop over the clauses that fills mappings
RECURSIVE parse_transformations(_, _)
parse_transformations(transformations, mappings) ==
    IF transformations = <<>> THEN mappings
    ELSE LET transform == Head(transformations)
         IN  IF contains(transform, ARROW)
             THEN parse_transformations(Tail(transformations),
                                        dict_put(mappings, parse_transform(transform)))
             ELSE parse_transformations(Tail(transformations), mappings)

process_transformations(transformations_str) ==
    IF transformations_str = <<>> THEN <<>>
    ELSE parse_transformations(
             split_transformations(transformations_str, 1, <<>>, 0, <<>>), <<>>)

-----------------------------------------------------------------------------
(* process_related_inserts                                                  *)

\* faulty variant of parse_key_instruction: the leading ':' of the value is kept
parse_key_instruction_keep_colon(instruction) ==
    LET after_key == SubSeq(instruction, Len(KEY_) + 1, Len(instruction))
        parts == split_once(after_key, <<"(">>)
        key_value_part == <<"(">> \o parts[2]
        key_match == re_search_group(key_value_part)
        after_parenthesis == split_once(key_value_part, <<")">>)
    IN  IF Len(parts) < 2 THEN <<>>
        ELSE IF ~key_match[1] THEN <<>>
        ELSE IF Len(after_parenthesis) < 2 THEN <<>>
        ELSE IF strip(key_match[2]) # <<>> /\ strip(after_parenthesis[2]) # <<>>
             THEN << [type |-> "KEY",
                      target_table |-> strip(parts[1]),
                      key_column |-> strip(key_match[2]),
                      value_column |-> strip(after_parenthesis[2])] >>
             ELSE <<>>

\* one KEY instruction: the entries it appends (none when it is dropped)
parse_key_instruction(instruction) ==
    LET after_key == SubSeq(instruction, Len(KEY_) + 1, Len(instruction))
        parts == split_once(after_key, <<"(">>)
        target_table == strip(parts[1])
        key_value_part == <<"(">> \o parts[2]
        key_match == re_search_group(key_value_part)
        key_column == strip(key_match[2])
        after_parenthesis == split_once(key_value_part, <<")">>)
        raw_value == strip(after_parenthesis[2])
        value_column == IF startswith(raw_value, <<":">>)
                        THEN strip(SubSeq(raw_value, 2, Len(raw_value)))
                        ELSE raw_value
    IN  IF Len(parts) < 2 THEN <<>>
        ELSE IF ~key_match[1] THEN <<>>
        ELSE IF Len(after_parenthesis) < 2 THEN <<>>
        ELSE IF key_column # <<>> /\ value_column # <<>>
             THEN << [type |-> "KEY",
                      target_table |-> target_table,
                      key_column |-> key_column,
                      value_column |-> value_column] >>
             ELSE <<>>

\* faulty variant of parse_instructions: a dropped KEY instruction ends the loop
RECURSIVE parse_instructions_abort(_, _)
parse_instructions_abort(instructions, related_inserts) ==
    IF instructions = <<>> THEN related_inserts
    ELSE IF strip(Head(instructions)) = <<>>
         THEN parse_instructions_abort(Tail(instructions), related_inserts)
    ELSE IF ~startswith(strip(Head(instructions)), KEY_)
         THEN parse_instructions_abort(Tail(instructions), related_inserts)
    ELSE IF parse_key_instruction(strip(Head(instructions))) = <<>>
         THEN related_inserts
    ELSE parse_instructions_abort(Tail(instructions),
             related_inserts \o parse_key_instruction(strip(Head(instructions))))

\* the loop over the instructions
RECURSIVE parse_instructions(_, _)
parse_instructions(instructions, related_inserts) ==
    IF instructions = <<>> THEN related_inserts
    ELSE LET instruction == strip(Head(instructions))
         IN  IF instruction = <<>>
             THEN parse_instructions(Tail(instructions), related_inserts)
             ELSE IF startswith(instruction, KEY_)
             THEN parse_instructions(Tail(instructions),
                      related_inserts \o parse_key_instruction(instruction))
             ELSE parse_instructions(Tail(instructions), related_inserts)

process_related_inserts(related_inserts_str) ==
    IF related_inserts_str = <<>> THEN <<>>
    ELSE parse_instructions(split(related_inserts_str, COMMA), <<>>)

-----------------------------------------------------------------------------
(* Inputs of the parsers: strings assembled from the clause and directive   *)
(* shapes of the mapping DSL.                                               *)

MaxClauses == 2
MaxDirectives == 2

RECURSIVE join(_, _)
join(texts, sep) ==
    IF texts = <<>> THEN <<>>
    ELSE IF Len(texts) = 1 THEN texts[1]
    ELSE texts[1] \o sep \o join(Tail(texts), sep)

SeqsUpTo(S, n) == UNION {[1..k -> S] : k \in 1..n}

\* 'x'->'1','y'->'2'   and   'x'->'1'
PairsXY == <<"'","x","'","-",">","'","1","'",",","'","y","'","-",">","'","2","'">>
PairsX == <<"'","x","'","-",">","'","1","'">>

ClauseForms == {"simple", "simple_spaced", "map", "map_spaced", "map_one", "no_arrow"}
ClauseSources == {<<"A">>, <<"C">>}
ClauseDests == {<<"B">>}
Clauses == [form : ClauseForms, src : ClauseSources, dest : ClauseDests]

ClauseText(c) ==
    CASE c.form = "simple"     -> c.src \o ARROW \o c.dest
      [] c.form = "simple_spaced" -> <<" ">> \o c.src \o <<" ">> \o ARROW \o <<" ">> \o c.dest \o <<" ">>
      [] c.form = "map"        -> c.src \o ARROW \o c.dest \o LPAREN_MAP \o <<" ">> \o PairsXY \o <<")">>
      [] c.form = "map_spaced" -> c.src \o ARROW \o c.dest \o <<" ">> \o LPAREN_MAP \o <<" ">> \o PairsXY \o <<")">>
      [] c.form = "map_one"    -> c.src \o ARROW \o c.dest \o LPAREN_MAP \o <<" ">> \o PairsX \o <<")">>
      [] c.form = "no_arrow"   -> c.src

ClausesText(cl) == join([k \in 1..Len(cl) |-> ClauseText(cl[k])], COMMA)

ClauseLists == SeqsUpTo(Clauses, MaxClauses)

DirectiveForms == {"full", "no_colon", "double_colon", "spaced", "no_open", "no_close",
                   "no_value", "empty_key", "blank_key", "blank_value", "other_kind"}
WellFormed == {"full", "no_colon", "double_colon", "spaced"}
DirectiveNames ==
    { [t |-> <<"m","i","g","r","t","_","k","e","y">>, k |-> <<"I","D">>, v |-> <<"N","A","M","E">>],
      [t |-> <<"t","b","l">>, k |-> <<"I","D">>, v |-> <<"V">>] }
Directives == {[form |-> f, t |-> n.t, k |-> n.k, v |-> n.v] : f \in DirectiveForms, n \in DirectiveNames}

DirectiveText(d) ==
    CASE d.form = "full"        -> KEY_ \o d.t \o <<"(">> \o d.k \o <<")",":">> \o d.v
      [] d.form = "no_colon"    -> KEY_ \o d.t \o <<"(">> \o d.k \o <<")">> \o d.v
      [] d.form = "double_colon" -> KEY_ \o d.t \o <<"(">> \o d.k \o <<")",":",":">> \o d.v
      [] d.form = "spaced"      -> <<" ">> \o KEY_ \o <<" ">> \o d.t \o <<" ","("," ">> \o d.k
                                    \o <<" ",")"," ",":"," ">> \o d.v \o <<" ">>
      [] d.form = "no_open"     -> KEY_ \o d.t \o d.k \o <<")",":">> \o d.v
      [] d.form = "no_close"    -> KEY_ \o d.t \o <<"(">> \o d.k
      [] d.form = "no_value"    -> KEY_ \o d.t \o <<"(">> \o d.k \o <<")">>
      [] d.form = "empty_key"   -> KEY_ \o d.t \o <<"(",")",":">> \o d.v
      [] d.form = "blank_key"   -> KEY_ \o d.t \o <<"("," ",")",":">> \o d.v
      [] d.form = "blank_value" -> KEY_ \o d.t \o <<"(">> \o d.k \o <<")",":"," ">>
      [] d.form = "other_kind"  -> <<"R","E","F",":">> \o d.t \o <<"(">> \o d.k \o <<")",":">> \o d.v

DirectivesText(dl) == join([k \in 1..Len(dl) |-> DirectiveText(dl[k])], COMMA)

DirectiveLists == SeqsUpTo(Directives, MaxDirectives)

\* column names assembled from pieces; `rule` is the first rule of the type
\* inference that the piece satisfies by itself (4: none)
NamePrefixes ==
    { [text |-> <<>>, rule |-> 4],
      [text |-> <<"C","U","S","T","O","M","E","R","_">>, rule |-> 4],
      [text |-> <<"O","R","D","E","R","_">>, rule |-> 4],
      [text |-> <<"T","O","T","A","L","_">>, rule |-> 4],
      [text |-> <<"x">>, rule |-> 4] }
NameCores ==
    { [text |-> <<"I","D">>, rule |-> 1],
      [text |-> <<"i","d">>, rule |-> 1],
      [text |-> <<"P","a","i","d">>, rule |-> 1],
      [text |-> <<"D","A","T","E">>, rule |-> 2],
      [text |-> <<"T","i","m","e">>, rule |-> 2],
      [text |-> <<"A","M","O","U","N","T">>, rule |-> 3],
      [text |-> <<"p","r","i","c","e">>, rule |-> 3],
      [text |-> <<"C","O","S","T">>, rule |-> 3],
      [text |-> <<"S","T","A","T","U","S">>, rule |-> 4],
      [text |-> <<"N","A","M","E">>, rule |-> 4] }
NameSuffixes ==
    { [text |-> <<>>, rule |-> 4],
      [text |-> <<"_","I","D">>, rule |-> 1],
      [text |-> <<"_","D","A","T","E">>, rule |-> 2],
      [text |-> <<"_","C","O","S","T">>, rule |-> 3],
      [text |-> <<"S">>, rule |-> 4] }
ColumnNames == [pre : NamePrefixes, core : NameCores, suf : NameSuffixes]
ColumnNameText(n) == n.pre.text \o n.core.text \o n.suf.text

NoCall == [fn |-> "none", input |-> <<>>, arg |-> <<>>, ret |-> <<>>, returned |-> FALSE]

ParserCalls ==
    {[fn |-> "process_transformations", input |-> cl, arg |-> ClausesText(cl),
      ret |-> <<>>, returned |-> FALSE] : cl \in ClauseLists}
    \cup
    {[fn |-> "process_related_inserts", input |-> dl, arg |-> DirectivesText(dl),
      ret |-> <<>>, returned |-> FALSE] : dl \in DirectiveLists}
    \cup
    {[fn |-> "record_type", input |-> n, arg |-> ColumnNameText(n),
      ret |-> <<>>, returned |-> FALSE] : n \in ColumnNames}

-----------------------------------------------------------------------------
(* generate_fallback_code: one unit per mapping row.                        *)

\* item.get(key, default) on a row (a function from the fields it has)
Get(item, key, default) == IF key \in DOMAIN item THEN item[key] ELSE default

UNKNOWN_SOURCE == <<"u","n","k","n","o","w","n","_","s","o","u","r","c","e">>
UNKNOWN_TARGET == <<"u","n","k","n","o","w","n","_","t","a","r","g","e","t">>
ALL == <<"A","L","L">>
PLACEHOLDER_COLUMNS ==
    << <<"I","D">>, <<"C","O","L","U","M","N","1">>, <<"C","O","L","U","M","N","2">>,
       <<"C","R","E","A","T","E","D","_","D","A","T","E">> >>

\* [col.strip() for col in cols if col.strip()]
clean_columns(cols) ==
    SelectSeq([i \in 1..Len(cols) |-> strip(cols[i])], LAMBDA col : col # <<>>)

\* source_columns after cleaning and defaulting
source_columns_of(cols) == IF cols = <<>> THEN PLACEHOLDER_COLUMNS ELSE cols

\* target_columns after cleaning and defaulting
target_columns_of(cols, source_columns, transformations) ==
    IF cols = <<>> /\ source_columns # <<>>
    THEN [i \in 1..Len(source_columns) |->
             IF dict_has(transformations, source_columns[i])
             THEN dict_get(transformations, source_columns[i]).dest_field
             ELSE source_columns[i]]
    ELSE cols

\* package_name = f"migrt_{target_table.lower()}"
package_name_of(target_table) == <<"m","i","g","r","t","_">> \o lower(target_table)

NUMBER == <<"N","U","M","B","E","R">>
DATE == <<"D","A","T","E">>
VARCHAR2 == <<"V","A","R","C","H","A","R","2","(","4","0","0","0",")">>

\* faulty variant of record_type_of: the DATE/TIME rule is tried first
record_type_of_temporal_first(col) ==
    IF contains(upper(col), <<"D","A","T","E">>) \/ contains(upper(col), <<"T","I","M","E">>) THEN DATE
    ELSE IF contains(upper(col), <<"I","D">>) THEN NUMBER
    ELSE IF \/ contains(upper(col), <<"A","M","O","U","N","T">>)
            \/ contains(upper(col), <<"P","R","I","C","E">>)
            \/ contains(upper(col), <<"C","O","S","T">>)
    THEN NUMBER
    ELSE VARCHAR2

\* the data type of a field of t_source_rec, chosen from the column name
record_type_of(col) ==
    IF contains(upper(col), <<"I","D">>) \/ endswith(upper(col), <<"_","I","D">>) THEN NUMBER
    ELSE IF contains(upper(col), <<"D","A","T","E">>) \/ contains(upper(col), <<"T","I","M","E">>) THEN DATE
    ELSE IF \/ contains(upper(col), <<"A","M","O","U","N","T">>)
            \/ contains(upper(col), <<"P","R","I","C","E">>)
            \/ contains(upper(col), <<"C","O","S","T">>)
    THEN NUMBER
    ELSE VARCHAR2

\* the fields of t_source_rec
record_types_of(source_columns) ==
    [i \in 1..Len(source_columns) |->
        [name |-> strip(source_columns[i]), type |-> record_type_of(source_columns[i])]]

\* the destination columns listed by INSERT INTO target (...)
insert_columns_of(target_columns) ==
    [i \in 1..Len(target_columns) |-> strip(target_columns[i])]

\* the value emitted for source column src_col
insert_value_of(src_col, transformations) ==
    IF dict_has(transformations, src_col) /\ dict_get(transformations, src_col).has_value_maps
    THEN [kind |-> "case", src_col |-> src_col,
          branches |-> dict_get(transformations, src_col).value_maps,
          else_col |-> src_col]
    ELSE [kind |-> "direct", src_col |-> src_col, branches |-> <<>>, else_col |-> src_col]

\* the expressions listed by VALUES (...): the loop over source_columns emits
\* one for every index that target_columns has too
insert_values_of(source_columns, target_columns, transformations) ==
    LET emitted == {i \in 1..Len(source_columns) : i <= Len(target_columns)}
    IN  [i \in 1..Cardinality(emitted) |-> insert_value_of(strip(source_columns[i]), transformations)]

\* what the text written after THEN denotes when the statement runs: digits
\* are a number, text between single quotes is a string, anything else is an
\* identifier and not a value
then_value(dest_val) ==
    IF dest_val # <<>> /\ Range(dest_val) \subseteq DIGIT
    THEN [ok |-> TRUE, value |-> dest_val]
    ELSE IF Len(dest_val) >= 2 /\ Head(dest_val) = "'" /\ dest_val[Len(dest_val)] = "'"
    THEN [ok |-> TRUE, value |-> SubSeq(dest_val, 2, Len(dest_val) - 1)]
    ELSE [ok |-> FALSE, value |-> dest_val]

\* the value of the branches WHEN 'src_val' THEN dest_val, tried in order, ELSE v
RECURSIVE branches_value(_, _)
branches_value(branches, v) ==
    IF branches = <<>> THEN [ok |-> TRUE, value |-> v]
    ELSE IF Head(branches)[1] = v THEN then_value(Head(branches)[2])
    ELSE branches_value(Tail(branches), v)

\* the value an emitted VALUES expression yields for the source value v
emitted_value(expr, v) ==
    IF expr.kind = "case" THEN branches_value(expr.branches, v)
    ELSE [ok |-> TRUE, value |-> v]

\* the text assembled for one row, and the entry appended to `scripts`
unit_code(source_table, target_table, where_condition, transformations, related_inserts, source_columns, target_columns, package_name) ==
    [filename |-> package_name \o <<".","s","q","l">>,
     code |-> [kind |-> "unit",
               package_name |-> package_name,
               source_table |-> source_table,
               target_table |-> target_table,
               record_types |-> record_types_of(source_columns),
               select_columns |-> source_columns,
               where_condition |-> where_condition,
               related_inserts |-> related_inserts,
               insert_columns |-> insert_columns_of(target_columns),
               insert_values |-> insert_values_of(source_columns, target_columns,
                                                  transformations)],
     source_table |-> source_table,
     target_table |-> target_table]

\* the row once its transformations, directives and source columns are known
unit_normalized(item, target_table, transformations, related_inserts, source_columns) ==
    unit_code(Get(item, "source_table", UNKNOWN_SOURCE),
              target_table,
              Get(item, "where_condition", <<>>),
              transformations,
              related_inserts,
              source_columns,
              target_columns_of(
                  clean_columns(split(Get(item, "target_columns", <<>>), COMMA)),
                  source_columns, transformations),
              package_name_of(target_table))

\* one pass of the loop over mapping_data
unit_script(item) ==
    unit_normalized(item,
                    Get(item, "target_table", UNKNOWN_TARGET),
                    process_transformations(Get(item, "transformations", <<>>)),
                    process_related_inserts(Get(item, "related_inserts", <<>>)),
                    source_columns_of(
                        clean_columns(split(Get(item, "source_columns", <<>>), COMMA))))

unit_scripts(batch) == [i \in 1..Len(batch) |-> unit_script(batch[i])]

\* faulty variant of call_block: the call is emitted without its EXCEPTION part
call_block_unhandled(script) ==
    [package_name |-> package_name_of(script.target_table),
     source_table |-> script.source_table,
     target_table |-> script.target_table,
     handler |-> "none"]

\* one BEGIN ... EXCEPTION WHEN OTHERS ... END block of the controller script
call_block(script) ==
    [package_name |-> package_name_of(script.target_table),
     source_table |-> script.source_table,
     target_table |-> script.target_table,
     handler |-> "report"]

\* faulty variant of main_calls: the blocks are emitted last script first
main_calls_reversed(units) == [i \in 1..Len(units) |-> call_block(units[Len(units) + 1 - i])]

\* the blocks of main_script, one per script
main_calls(units) == [i \in 1..Len(units) |-> call_block(units[i])]

main_script(units) ==
    [filename |-> <<"m","i","g","r","a","t","e","_","a","l","l",".","s","q","l">>,
     code |-> [kind |-> "main", calls |-> main_calls(units)],
     source_table |-> ALL,
     target_table |-> ALL]

\* scripts.append(main controller)
with_main(units) == Append(units, main_script(units))

\* the list `scripts` when the generation loop and the controller are done
all_scripts(batch) == with_main(unit_scripts(batch))

-----------------------------------------------------------------------------
(* generate_fallback_code: saving the scripts and the index.                *)

\* datetime.now().strftime("%Y%m%d_%H%M%S"): fixed width, one token per second
timestamp_of(now) == <<ToString(now)>>

saved_filename(script, timestamp) ==
    IF script.source_table = ALL /\ script.target_table = ALL
    THEN timestamp \o <<"_","m","i","g","r","a","t","e","_","a","l","l",".","s","q","l">>
    ELSE timestamp \o <<"_">> \o sanitize(script.source_table) \o <<"_","t","o","_">>
             \o sanitize(script.target_table) \o <<".","s","q","l">>

file_info(script, timestamp) ==
    [filename |-> saved_filename(script, timestamp),
     source_table |-> script.source_table,
     target_table |-> script.target_table,
     timestamp |-> timestamp]

file_infos(scrs, timestamp) == [i \in 1..Len(scrs) |-> file_info(scrs[i], timestamp)]

\* open(file_path, 'w').write(code)
write_file(dir, filename, code) ==
    [f \in DOMAIN dir \cup {filename} |-> IF f = filename THEN code ELSE dir[f]]

\* the loop that writes every script, in order, into generated_code
RECURSIVE write_scripts(_, _, _)
write_scripts(dir, scrs, timestamp) ==
    IF scrs = <<>> THEN dir
    ELSE write_scripts(write_file(dir, saved_filename(Head(scrs), timestamp), Head(scrs).code),
                       Tail(scrs), timestamp)

\* what is left of file_index.json when writing it fails after it was opened
PARTIAL == <<[partial |-> TRUE]>>

\* json.load(file_index.json); [] when the content cannot be parsed
load_index(content) == IF content = PARTIAL THEN <<>> ELSE content

\* faulty variant of updated_index: the entries read from the file are forgotten
updated_index_overwrite(existing, index_data) == index_data

\* updated_index = existing_index + index_data
updated_index(existing, index_data) == existing \o index_data

-----------------------------------------------------------------------------
(* Mapping rows and batches given to the generator.                         *)

MaxRows == 2
MaxCatalog == 4
MaxClock == 1

Handlers == {1, 2}

\* marks a field that the row does not have
ABSENT == <<"<absent>">>

Row(st, tt, sc, tc, tr, wh, ri) ==
    LET all == [source_table |-> st, target_table |-> tt, source_columns |-> sc,
                target_columns |-> tc, transformations |-> tr,
                where_condition |-> wh, related_inserts |-> ri]
    IN  [k \in {f \in DOMAIN all : all[f] # ABSENT} |-> all[k]]

TableRow(st, tt) == Row(st, tt, ABSENT, ABSENT, ABSENT, ABSENT, ABSENT)

\* rows that differ in their table names only
TableRows ==
    { TableRow(<<"S">>, <<"T">>),
      TableRow(<<"S">>, <<"t">>),
      TableRow(<<"U">>, <<"V">>),
      TableRow(ABSENT, <<"T">>),
      TableRow(<<"S">>, ABSENT),
      TableRow(<<>>, <<"T">>),
      TableRow(<<"S">>, <<" ">>),
      TableRow(<<"a","-","b">>, <<"T">>),
      TableRow(<<"a","_","b">>, <<"T">>),
      TableRow(ALL, ALL) }

\* rows that differ in their column lists, transformations and directives
ColumnRows ==
    { Row(<<"O">>, <<"N">>, <<"A">>, <<"X",",","Y">>, ABSENT, ABSENT, ABSENT),
      Row(<<"O">>, <<"N">>, <<"A",",","B",",","C">>, <<"X">>, <<>>, <<>>, <<>>),
      Row(<<"O">>, <<"N">>, <<" ","A"," ",","," ",",","B">>, ABSENT,
          <<"A","-",">","X">>, ABSENT, ABSENT),
      Row(<<"O">>, <<"N">>, <<"A",",","B">>, <<"X",",","Y">>,
          <<"A","-",">","X","(","M","A","P",":"," ">> \o PairsX \o <<")">>,
          <<"W">>,
          <<"K","E","Y",":","t","b","l","(","A",")",":","B">>) }

\* the row of the end-to-end scenario (first row of the sample mapping file,
\* less two columns and the directive)
SampleRow ==
    Row(<<"C","U","S","T","O","M","E","R","S","_","O","L","D">>, <<"C","U","S","T","O","M","E","R","S","_","N","E","W">>,
        <<"I","D",",","N","A","M","E",",","S","T","A","T","U","S">>,
        <<"I","D",",","F","U","L","L","_","N","A","M","E",",","S","T","A","T","U","S","_","C","O","D","E">>,
        <<"N","A","M","E","-",">","F","U","L","L","_","N","A","M","E",",","S","T","A","T","U","S","-",">","S","T","A","T","U","S","_","C","O","D","E"," ","(","M","A","P",":"," ","'","A","'","-",">","1",",","'","I","'","-",">","0",")">>,
        <<"S","T","A","T","U","S"," ","<",">"," ","'","D","'">>,
        <<>>)

\* rows whose transformations leave a destination empty or map to a text value
EdgeRows ==
    { Row(<<"O">>, <<"N">>, <<"A">>, ABSENT, <<"A","-",">">>, ABSENT, ABSENT),
      Row(<<"O">>, <<"N">>, <<"A">>, <<"X">>,
          <<"A","-",">","X","(","M","A","P",":"," ","'","x","'","-",">","'","y","e","s","'",")">>, ABSENT, ABSENT) }

Rows == TableRows \cup ColumnRows \cup EdgeRows \cup {SampleRow}

Batches == SeqsUpTo(Rows, MaxRows)

\* the batches uploaded to the running server
Uploads == { <<TableRow(<<"S">>, <<"T">>)>>, <<TableRow(<<"U">>, <<"V">>)>> }

-----------------------------------------------------------------------------
(* The state machine.                                                       *)

\* marks that the assist produced no text
NONE == [kind |-> "none"]

NoRequest ==
    [ai_model |-> FALSE, in_try |-> FALSE, generated_code |-> NONE, runs |-> 0,
     write_failures |-> 0, catalog_before |-> <<>>]

NoUnitRun == [status |-> "none"]

NoRun == [calls |-> <<>>, i |-> 0, invoked |-> <<>>, reported |-> <<>>, status |-> "none"]

Init ==
    /\ call = NoCall
    /\ clock = 0
    /\ files = <<>>
    /\ catalog = <<>>
    /\ pc = [h \in Handlers |-> "idle"]
    /\ mapping_data = [h \in Handlers |-> <<>>]
    /\ scripts = [h \in Handlers |-> <<>>]
    /\ saved_files = [h \in Handlers |-> <<>>]
    /\ existing_index = [h \in Handlers |-> <<>>]
    /\ run = NoRun
    /\ threaded \in BOOLEAN
    /\ request = NoRequest
    /\ unit_run = NoUnitRun

\* faulty variant of may_start: requests overlap on a single-threaded server too
may_start_always(h) == TRUE

\* a single-threaded server takes the next request when the last one has returned
may_start(h) == threaded \/ \A g \in Handlers \ {h} : pc[g] \in {"idle", "done"}

\* the loop that saves the scripts under their timestamped names
SaveScripts(h, batch, scrs, timestamp) ==
    /\ mapping_data' = [mapping_data EXCEPT ![h] = batch]
    /\ scripts' = [scripts EXCEPT ![h] = scrs]
    /\ saved_files' = [saved_files EXCEPT ![h] = file_infos(scrs, timestamp)]
    /\ files' = write_scripts(files, scrs, timestamp)

\* the scripts generated for each of the uploads, computed once
UploadScripts == [batch \in Uploads |-> all_scripts(batch)]

\* scripts, the list generate_fallback_code builds from the batch
scripts_of(batch) == IF batch \in Uploads THEN UploadScripts[batch] ELSE all_scripts(batch)

\* generate_fallback_code up to the end of the loop that saves the scripts
Upload(h, batches) ==
    /\ pc[h] = "idle"
    /\ may_start(h)
    /\ Len(catalog) < MaxCatalog
    /\ \E batch \in batches : SaveScripts(h, batch, scripts_of(batch), timestamp_of(clock))
    /\ pc' = [pc EXCEPT ![h] = "saved"]
    /\ UNCHANGED <<call, clock, catalog, existing_index, run, threaded, request, unit_run>>

\* existing_index = json.load(file_index.json), [] when the file does not exist
ReadIndex(h) ==
    /\ pc[h] = "saved"
    /\ existing_index' = [existing_index EXCEPT ![h] = load_index(catalog)]
    /\ pc' = [pc EXCEPT ![h] = "read"]
    /\ UNCHANGED <<call, clock, files, catalog, mapping_data, scripts, saved_files,
                   run, threaded, request, unit_run>>

\* json.dump(updated_index, file_index.json); return saved_files
WriteIndex(h) ==
    /\ pc[h] = "read"
    /\ catalog' = updated_index(existing_index[h], saved_files[h])
    /\ pc' = [pc EXCEPT ![h] = "done"]
    /\ UNCHANGED <<call, clock, files, mapping_data, scripts, saved_files,
                   existing_index, run, threaded, request, unit_run>>

\* the request of handler h is answered; its locals are gone
Return(h) ==
    /\ pc[h] = "done"
    /\ pc' = [pc EXCEPT ![h] = "idle"]
    /\ mapping_data' = [mapping_data EXCEPT ![h] = <<>>]
    /\ scripts' = [scripts EXCEPT ![h] = <<>>]
    /\ saved_files' = [saved_files EXCEPT ![h] = <<>>]
    /\ existing_index' = [existing_index EXCEPT ![h] = <<>>]
    /\ UNCHANGED <<call, clock, files, catalog, run, threaded, request, unit_run>>

\* a second passes
Tick ==
    /\ clock < MaxClock
    /\ clock' = clock + 1
    /\ UNCHANGED <<call, files, catalog, pc, mapping_data, scripts, saved_files,
                   existing_index, run, threaded, request, unit_run>>

Next ==
    \/ \E h \in Handlers : Upload(h, Uploads)
    \/ \E h \in Handlers : ReadIndex(h)
    \/ \E h \in Handlers : WriteIndex(h)
    \/ \E h \in Handlers : Return(h)
    \/ Tick

Spec == Init /\ [][Next]_vars

-----------------------------------------------------------------------------
(* The parsers called on their own.                                         *)

InitParse ==
    /\ call \in ParserCalls
    /\ clock = 0
    /\ files = <<>>
    /\ catalog = <<>>
    /\ pc = [h \in Handlers |-> "idle"]
    /\ mapping_data = [h \in Handlers |-> <<>>]
    /\ scripts = [h \in Handlers |-> <<>>]
    /\ saved_files = [h \in Handlers |-> <<>>]
    /\ existing_index = [h \in Handlers |-> <<>>]
    /\ run = NoRun
    /\ threaded = FALSE
    /\ request = NoRequest
    /\ unit_run = NoUnitRun

CallProcessTransformations ==
    /\ call.fn = "process_transformations"
    /\ ~call.returned
    /\ call' = [call EXCEPT !.ret = process_transformations(call.arg), !.returned = TRUE]
    /\ UNCHANGED <<clock, files, catalog, pc, mapping_data, scripts, saved_files,
                   existing_index, run, threaded, request, unit_run>>

CallProcessRelatedInserts ==
    /\ call.fn = "process_related_inserts"
    /\ ~call.returned
    /\ call' = [call EXCEPT !.ret = process_related_inserts(call.arg), !.returned = TRUE]
    /\ UNCHANGED <<clock, files, catalog, pc, mapping_data, scripts, saved_files,
                   existing_index, run, threaded, request, unit_run>>

\* the type chosen for one field of t_source_rec
CallRecordType ==
    /\ call.fn = "record_type"
    /\ ~call.returned
    /\ call' = [call EXCEPT !.ret = record_type_of(call.arg), !.returned = TRUE]
    /\ UNCHANGED <<clock, files, catalog, pc, mapping_data, scripts, saved_files,
                   existing_index, run, threaded, request, unit_run>>

NextParse == CallProcessTransformations \/ CallProcessRelatedInserts \/ CallRecordType

SpecParse == InitParse /\ [][NextParse]_vars

-----------------------------------------------------------------------------
(* One batch generated by one handler, and its controller script executed.  *)

\* the controller script is loaded from the file the batch saved it in
StartRun(h) ==
    /\ pc[h] = "done"
    /\ run.status = "none"
    /\ run' = [calls |-> files[saved_files[h][Len(saved_files[h])].filename].calls,
               i |-> 1, invoked |-> <<>>, reported |-> <<>>, status |-> "running"]
    /\ UNCHANGED <<call, clock, files, catalog, pc, mapping_data, scripts, saved_files,
                   existing_index, threaded, request, unit_run>>

\* block i: the routine returns normally
RunCall ==
    /\ run.status = "running"
    /\ run.i <= Len(run.calls)
    /\ run' = [run EXCEPT !.invoked = Append(@, run.calls[run.i].package_name),
                          !.i = @ + 1]
    /\ UNCHANGED <<call, clock, files, catalog, pc, mapping_data, scripts, saved_files,
                   existing_index, threaded, request, unit_run>>

\* block i: the routine raises; WHEN OTHERS reports it, without a handler it propagates
RunCallFails ==
    /\ run.status = "running"
    /\ run.i <= Len(run.calls)
    /\ IF run.calls[run.i].handler = "report"
       THEN run' = [run EXCEPT !.invoked = Append(@, run.calls[run.i].package_name),
                               !.reported = Append(@, run.calls[run.i].package_name),
                               !.i = @ + 1]
       ELSE run' = [run EXCEPT !.invoked = Append(@, run.calls[run.i].package_name),
                               !.status = "raised"]
    /\ UNCHANGED <<call, clock, files, catalog, pc, mapping_data, scripts, saved_files,
                   existing_index, threaded, request, unit_run>>

\* the END of the controller block is reached
RunEnd ==
    /\ run.status = "running"
    /\ run.i > Len(run.calls)
    /\ run' = [run EXCEPT !.status = "ended"]
    /\ UNCHANGED <<call, clock, files, catalog, pc, mapping_data, scripts, saved_files,
                   existing_index, threaded, request, unit_run>>

InitGen == Init /\ threaded = FALSE

NextGen ==
    \/ Upload(1, Batches)
    \/ ReadIndex(1)
    \/ WriteIndex(1)
    \/ StartRun(1)
    \/ RunCall
    \/ RunCallFails
    \/ RunEnd

SpecGen == InitGen /\ [][NextGen]_vars

-----------------------------------------------------------------------------
(* generate_migration_code: the optional assist around the generator, and   *)
(* the catalog rewrite failing.                                             *)

MaxFailures == 1

\* texts the assist may return
AssistOutputs ==
    { [kind |-> "assist", text |-> <<"-","-"," ","A","I">>],
      [kind |-> "assist", text |-> <<"B","E","G","I","N"," ","N","U","L","L",";"," ","E","N","D",";">>] }

\* f"ai_output_{timestamp}.sql"
side_filename(timestamp) == <<"a","i","_","o","u","t","p","u","t","_">> \o timestamp \o <<".","s","q","l">>

\* the scripts with their code replaced by the text of the assist
with_code(scrs, generated_code) ==
    IF generated_code = NONE THEN scrs
    ELSE [i \in 1..Len(scrs) |-> [scrs[i] EXCEPT !.code = generated_code]]

\* faulty variant of generated_scripts: the text of the assist is substituted
generated_scripts_from_assist(batch, generated_code) == with_code(all_scripts(batch), generated_code)

\* the scripts of a batch: the assist's text is kept for reference only
generated_scripts(batch, generated_code) == all_scripts(batch)

\* upload_file calls generate_migration_code(mapping_data)
Request(h, batches) ==
    /\ pc[h] = "idle"
    /\ Len(catalog) < MaxCatalog
    /\ \E batch \in batches : mapping_data' = [mapping_data EXCEPT ![h] = batch]
    /\ pc' = [pc EXCEPT ![h] = IF request.ai_model THEN "assist" ELSE "fallback"]
    /\ request' = [request EXCEPT !.in_try = request.ai_model, !.generated_code = NONE,
                                  !.runs = 0, !.write_failures = 0,
                                  !.catalog_before = load_index(catalog)]
    /\ UNCHANGED <<call, clock, files, catalog, scripts, saved_files, existing_index,
                   run, threaded, unit_run>>

\* the assist returns a text, which is written to its side file
AssistReturns(h) ==
    /\ pc[h] = "assist"
    /\ \E generated_code \in AssistOutputs :
          /\ request' = [request EXCEPT !.generated_code = generated_code]
          /\ files' = write_file(files, side_filename(timestamp_of(clock)), generated_code)
    /\ pc' = [pc EXCEPT ![h] = "fallback"]
    /\ UNCHANGED <<call, clock, catalog, mapping_data, scripts, saved_files,
                   existing_index, run, threaded, unit_run>>

\* the assist (or the write of its side file) raises: except Exception
AssistRaises(h) ==
    /\ pc[h] = "assist"
    /\ request' = [request EXCEPT !.in_try = FALSE]
    /\ pc' = [pc EXCEPT ![h] = "fallback"]
    /\ UNCHANGED <<call, clock, files, catalog, mapping_data, scripts, saved_files,
                   existing_index, run, threaded, unit_run>>

\* generate_fallback_code(mapping_data) up to the end of the loop that saves the scripts
Generate(h) ==
    /\ pc[h] = "fallback"
    /\ SaveScripts(h, mapping_data[h],
                   generated_scripts(mapping_data[h], request.generated_code),
                   timestamp_of(clock))
    /\ request' = [request EXCEPT !.runs = @ + 1]
    /\ pc' = [pc EXCEPT ![h] = "saved"]
    /\ UNCHANGED <<call, clock, catalog, existing_index, run, threaded, unit_run>>

\* open(index_path, 'w') or json.dump raises: the file is left as it was or
\* truncated; inside the try of generate_migration_code the error is caught
\* and the generator is called again, otherwise it leaves the call
WriteIndexFails(h) ==
    /\ pc[h] = "read"
    /\ request.write_failures < MaxFailures
    /\ catalog' \in {catalog, PARTIAL}
    /\ request' = [request EXCEPT !.write_failures = @ + 1, !.in_try = FALSE]
    /\ pc' = [pc EXCEPT ![h] = IF request.in_try THEN "fallback" ELSE "raised"]
    /\ UNCHANGED <<call, clock, files, mapping_data, scripts, saved_files,
                   existing_index, run, threaded, unit_run>>

\* the error leaves upload_file; the locals of the request are gone
Propagate(h) ==
    /\ pc[h] = "raised"
    /\ pc' = [pc EXCEPT ![h] = "idle"]
    /\ mapping_data' = [mapping_data EXCEPT ![h] = <<>>]
    /\ scripts' = [scripts EXCEPT ![h] = <<>>]
    /\ saved_files' = [saved_files EXCEPT ![h] = <<>>]
    /\ existing_index' = [existing_index EXCEPT ![h] = <<>>]
    /\ UNCHANGED <<call, clock, files, catalog, run, threaded, request, unit_run>>

InitAssist ==
    /\ call = NoCall
    /\ clock = 0
    /\ files = <<>>
    /\ catalog = <<>>
    /\ pc = [h \in Handlers |-> "idle"]
    /\ mapping_data = [h \in Handlers |-> <<>>]
    /\ scripts = [h \in Handlers |-> <<>>]
    /\ saved_files = [h \in Handlers |-> <<>>]
    /\ existing_index = [h \in Handlers |-> <<>>]
    /\ run = NoRun
    /\ threaded = FALSE
    /\ request \in {[NoRequest EXCEPT !.ai_model = loaded] : loaded \in BOOLEAN}
    /\ unit_run = NoUnitRun

NextAssist ==
    \/ Request(1, Uploads)
    \/ AssistReturns(1)
    \/ AssistRaises(1)
    \/ Generate(1)
    \/ ReadIndex(1)
    \/ WriteIndex(1)
    \/ WriteIndexFails(1)
    \/ Return(1)
    \/ Propagate(1)

SpecAssist == InitAssist /\ [][NextAssist]_vars

-----------------------------------------------------------------------------
(* Execution of migrate_data, the routine of a generated per-mapping unit.  *)

MaxFetched == 2

\* rows whose units differ in the number of related-insert blocks
UnitRows ==
    { Row(<<"O">>, <<"N">>, <<"A",",","B">>, <<"X",",","Y">>, ABSENT, ABSENT, ABSENT),
      Row(<<"O">>, <<"N">>, <<"A",",","B">>, <<"X",",","Y">>, ABSENT, ABSENT,
          <<"K","E","Y",":","t","b","l","(","A",")",":","B">>),
      Row(<<"O">>, <<"N">>, <<"A",",","B">>, <<"X",",","Y">>, ABSENT, <<"W">>,
          <<"K","E","Y",":","t","b","l","(","A",")",":","B",",","K","E","Y",":","l","k","p","(","A",")",":","B">>) }

\* one thing the routine did: a statement (ok or raising) or a line of output
Ev(op, row, directive, ok) == [op |-> op, row |-> row, directive |-> directive, ok |-> ok]

\* BEGIN of migrate_data of the unit with this code
start_unit(code) ==
    [status |-> "running", phase |-> "fetch", related_inserts |-> code.related_inserts,
     rows |-> 0, i |-> 0, j |-> 0, events |-> <<>>]

\* faulty variant of after_fetch: the fetched count is not tested
after_fetch_unguarded(ur, n) ==
    [ur EXCEPT !.rows = n, !.i = 1, !.j = 1,
               !.events = @ \o <<Ev("fetch", 0, 0, TRUE), Ev("report_found", 0, 0, TRUE)>>,
               !.phase = IF ur.related_inserts # <<>> THEN "loop" ELSE "insert"]

\* SELECT ... BULK COLLECT returned n rows; IF v_count > 0 THEN ... ELSE ...
after_fetch(ur, n) ==
    [ur EXCEPT !.rows = n, !.i = 1, !.j = 1,
               !.events = @ \o <<Ev("fetch", 0, 0, TRUE), Ev("report_found", 0, 0, TRUE)>>,
               !.phase = IF n > 0
                         THEN (IF ur.related_inserts # <<>> THEN "loop" ELSE "insert")
                         ELSE "nothing"]

\* the position after block j of row i
next_position(ur) ==
    IF ur.j < Len(ur.related_inserts) THEN <<ur.i, ur.j + 1>> ELSE <<ur.i + 1, 1>>

\* faulty variant of after_upsert: a MERGE that raises ends the routine
after_upsert_abort(ur, ok) ==
    IF ok
    THEN [ur EXCEPT !.events = @ \o <<Ev("merge", ur.i, ur.j, TRUE),
                                      Ev("report_processed", ur.i, ur.j, TRUE)>>,
                    !.i = next_position(ur)[1], !.j = next_position(ur)[2]]
    ELSE [ur EXCEPT !.events = Append(@, Ev("merge", ur.i, ur.j, FALSE)), !.phase = "handler"]

\* one BEGIN MERGE ... EXCEPTION WHEN OTHERS ... END block of the loop
after_upsert(ur, ok) ==
    [ur EXCEPT !.events = @ \o <<Ev("merge", ur.i, ur.j, ok),
                                 Ev(IF ok THEN "report_processed" ELSE "report_upsert_error",
                                    ur.i, ur.j, TRUE)>>,
               !.i = next_position(ur)[1], !.j = next_position(ur)[2]]

\* a statement outside the MERGE blocks: done, or raising into WHEN OTHERS
after_statement(ur, op, ok, phase) ==
    IF ok
    THEN [ur EXCEPT !.events = @ \o <<Ev(op, 0, 0, TRUE), Ev("report_" \o op, 0, 0, TRUE)>>,
                    !.phase = phase]
    ELSE [ur EXCEPT !.events = Append(@, Ev(op, 0, 0, FALSE)), !.phase = "handler"]

\* faulty variant of exception_handler: the error is reported and not raised again
exception_handler_swallow(ur) ==
    [ur EXCEPT !.events = Append(@, Ev("report_error", 0, 0, TRUE)),
               !.phase = "end", !.status = "returned"]

\* EXCEPTION WHEN OTHERS of migrate_data: report, ROLLBACK, RAISE
exception_handler(ur) ==
    [ur EXCEPT !.events = @ \o <<Ev("report_error", 0, 0, TRUE), Ev("rollback", 0, 0, TRUE)>>,
               !.phase = "end", !.status = "raised"]

\* the bulk fetch returns some rows
Fetch ==
    /\ unit_run.status = "running"
    /\ unit_run.phase = "fetch"
    /\ \E n \in 0..MaxFetched : unit_run' = after_fetch(unit_run, n)
    /\ UNCHANGED <<call, clock, files, catalog, pc, mapping_data, scripts, saved_files,
                   existing_index, run, threaded, request>>

\* the bulk fetch raises
FetchFails ==
    /\ unit_run.status = "running"
    /\ unit_run.phase = "fetch"
    /\ unit_run' = after_statement(unit_run, "fetch", FALSE, "handler")
    /\ UNCHANGED <<call, clock, files, catalog, pc, mapping_data, scripts, saved_files,
                   existing_index, run, threaded, request>>

\* ELSE branch: 'No records to migrate.'
ReportNothing ==
    /\ unit_run.status = "running"
    /\ unit_run.phase = "nothing"
    /\ unit_run' = [unit_run EXCEPT !.events = Append(@, Ev("report_nothing", 0, 0, TRUE)),
                                    !.phase = "completed"]
    /\ UNCHANGED <<call, clock, files, catalog, pc, mapping_data, scripts, saved_files,
                   existing_index, run, threaded, request>>

\* block j of row i of the related-insert loop; its MERGE is done or raises
Upsert ==
    /\ unit_run.status = "running"
    /\ unit_run.phase = "loop"
    /\ unit_run.i <= unit_run.rows
    /\ \E ok \in BOOLEAN : unit_run' = after_upsert(unit_run, ok)
    /\ UNCHANGED <<call, clock, files, catalog, pc, mapping_data, scripts, saved_files,
                   existing_index, run, threaded, request>>

\* END LOOP; COMMIT
LoopCommit ==
    /\ unit_run.status = "running"
    /\ unit_run.phase = "loop"
    /\ unit_run.i > unit_run.rows
    /\ \E ok \in BOOLEAN : unit_run' = after_statement(unit_run, "commit_related", ok, "insert")
    /\ UNCHANGED <<call, clock, files, catalog, pc, mapping_data, scripts, saved_files,
                   existing_index, run, threaded, request>>

\* FORALL i IN 1..v_source_data.COUNT INSERT INTO target
MainInsert ==
    /\ unit_run.status = "running"
    /\ unit_run.phase = "insert"
    /\ \E ok \in BOOLEAN : unit_run' = after_statement(unit_run, "insert", ok, "commit")
    /\ UNCHANGED <<call, clock, files, catalog, pc, mapping_data, scripts, saved_files,
                   existing_index, run, threaded, request>>

\* COMMIT of the main insert
MainCommit ==
    /\ unit_run.status = "running"
    /\ unit_run.phase = "commit"
    /\ \E ok \in BOOLEAN : unit_run' = after_statement(unit_run, "commit_main", ok, "completed")
    /\ UNCHANGED <<call, clock, files, catalog, pc, mapping_data, scripts, saved_files,
                   existing_index, run, threaded, request>>

\* 'Migration completed'; END migrate_data
Complete ==
    /\ unit_run.status = "running"
    /\ unit_run.phase = "completed"
    /\ unit_run' = [unit_run EXCEPT !.events = Append(@, Ev("report_completed", 0, 0, TRUE)),
                                    !.phase = "end", !.status = "returned"]
    /\ UNCHANGED <<call, clock, files, catalog, pc, mapping_data, scripts, saved_files,
                   existing_index, run, threaded, request>>

\* EXCEPTION WHEN OTHERS of migrate_data
HandleError ==
    /\ unit_run.status = "running"
    /\ unit_run.phase = "handler"
    /\ unit_run' = exception_handler(unit_run)
    /\ UNCHANGED <<call, clock, files, catalog, pc, mapping_data, scripts, saved_files,
                   existing_index, run, threaded, request>>

InitUnit ==
    /\ call = NoCall
    /\ clock = 0
    /\ files = <<>>
    /\ catalog = <<>>
    /\ pc = [h \in Handlers |-> "idle"]
    /\ mapping_data = [h \in Handlers |-> <<>>]
    /\ scripts = [h \in Handlers |-> <<>>]
    /\ saved_files = [h \in Handlers |-> <<>>]
    /\ existing_index = [h \in Handlers |-> <<>>]
    /\ run = NoRun
    /\ threaded = FALSE
    /\ request = NoRequest
    /\ unit_run \in {start_unit(unit_script(item).code) : item \in UnitRows}

NextUnit ==
    \/ Fetch
    \/ FetchFails
    \/ ReportNothing
    \/ Upsert
    \/ LoopCommit
    \/ MainInsert
    \/ MainCommit
    \/ Complete
    \/ HandleError

SpecUnit == InitUnit /\ [][NextUnit]_vars

-----------------------------------------------------------------------------
(* Properties.                                                              *)

IsPrefix(a, b) == Len(a) <= Len(b) /\ SubSeq(b, 1, Len(a)) = a

Min(a, b) == IF a < b THEN a ELSE b

ValueMapXY == << << <<"x">>, <<"1">> >>, << <<"y">>, <<"2">> >> >>

\* the clause sources of input list cl
SourcesOf(cl) == {cl[k].src : k \in 1..Len(cl)}

\* C1: a clause SRC->DEST(MAP: 'x'->'1','y'->'2'), alone or among other
\* clauses, is kept whole: process_transformations returns for SRC the
\* transform [DEST, {x:1, y:2}] and creates no entry from a map pair (every
\* key of the result is the source of a clause).
C1_MapClauseKeptWhole ==
    (call.fn = "process_transformations" /\ call.returned) =>
        \A k \in 1..Len(call.input) :
            (/\ call.input[k].form = "map"
             /\ \A j \in 1..Len(call.input) : j # k => call.input[j].src # call.input[k].src)
            => /\ dict_has(call.ret, call.input[k].src)
               /\ dict_get(call.ret, call.input[k].src) =
                      [dest_field |-> call.input[k].dest, has_value_maps |-> TRUE,
                       value_maps |-> ValueMapXY]
               /\ \A i \in 1..Len(call.ret) : call.ret[i][1] \in SourcesOf(call.input)

\* the target columns a row resolves to
ResolvedTargets(code, item) ==
    LET given == clean_columns(split(Get(item, "target_columns", <<>>), COMMA))
    IN  IF given = <<>> THEN Len(code.select_columns) ELSE Len(given)

\* C2: the INSERT of every per-mapping unit lists exactly
\* min(len(source_columns), len(target_columns)) target columns and as many
\* values, the i-th value taken from the i-th source column.
C2_InsertSidesMatch ==
    \A h \in Handlers : pc[h] # "idle" =>
        \A i \in 1..Len(mapping_data[h]) :
            LET code == scripts[h][i].code
                n == Min(Len(code.select_columns), ResolvedTargets(code, mapping_data[h][i]))
            IN  /\ Len(code.insert_columns) = n
                /\ Len(code.insert_values) = n
                /\ \A j \in 1..n : code.insert_values[j].src_col = code.select_columns[j]

\* C3: a batch of n rows yields n + 1 units: the n per-mapping units in input
\* order, then one controller unit for ALL/ALL whose script calls the routine of
\* each per-mapping unit once, in input order.
C3_UnitsThenController ==
    \A h \in Handlers : pc[h] # "idle" =>
        LET n == Len(mapping_data[h])
            out == saved_files[h]
            main == scripts[h][n + 1]
        IN  /\ n >= 1
            /\ Len(scripts[h]) = n + 1
            /\ Len(out) = n + 1
            /\ \A i \in 1..n :
                  /\ scripts[h][i].code.kind = "unit"
                  /\ out[i].source_table = Get(mapping_data[h][i], "source_table", UNKNOWN_SOURCE)
                  /\ out[i].target_table = Get(mapping_data[h][i], "target_table", UNKNOWN_TARGET)
            /\ main.code.kind = "main"
            /\ out[n + 1].source_table = ALL
            /\ out[n + 1].target_table = ALL
            /\ Len(main.code.calls) = n
            /\ \A i \in 1..n :
                  main.code.calls[i].package_name = scripts[h][i].code.package_name

C3_Witness ==
    /\ pc[1] = "done"
    /\ Len(mapping_data[1]) = 2
    /\ Len(saved_files[1]) = 3
    /\ scripts[1][1].code.package_name # scripts[1][2].code.package_name
    /\ scripts[1][3].code.calls[2].package_name = scripts[1][2].code.package_name

\* C4: when the controller script runs, a routine that raises is reported and
\* the later routines are still called: no error leaves the controller block,
\* the calls made so far are the first blocks in order, and at its END all n
\* routines have been called in order.
C4_FailSoft ==
    /\ run.status # "raised"
    /\ run.status \in {"running", "ended"} =>
          /\ run.i \in 1..(Len(run.calls) + 1)
          /\ run.invoked = [k \in 1..(run.i - 1) |-> run.calls[k].package_name]
          /\ Range(run.reported) \subseteq Range(run.invoked)
    /\ run.status = "ended" =>
          run.invoked = [k \in 1..Len(run.calls) |-> run.calls[k].package_name]

C4_Witness ==
    /\ run.status = "ended"
    /\ Len(run.calls) = 2
    /\ run.reported = <<run.calls[1].package_name>>
    /\ Len(run.invoked) = 2

\* C5: when batches are handled one at a time, a step never removes, replaces
\* or reorders a catalog entry, and the rewrite that ends a batch appends one
\* entry per unit of that batch, in unit order, after everything that was there.
C5_CatalogOnlyAppended ==
    [][~threaded =>
          /\ IsPrefix(catalog, catalog')
          /\ \A h \in Handlers : (pc[h] = "read" /\ pc'[h] = "done") =>
                /\ Len(catalog') = Len(catalog) + Len(mapping_data[h]) + 1
                /\ \A i \in 1..Len(scripts[h]) :
                      /\ catalog'[Len(catalog) + i].source_table = scripts[h][i].source_table
                      /\ catalog'[Len(catalog) + i].target_table = scripts[h][i].target_table
                      /\ catalog'[Len(catalog) + i].filename = saved_files[h][i].filename]_vars

C5_Witness ==
    /\ ~threaded
    /\ \E h \in Handlers :
          /\ pc[h] = "done"
          /\ existing_index[h] # <<>>
          /\ catalog = existing_index[h] \o saved_files[h]
          /\ Len(catalog) >= 4

\* a batch that has returned and some entry of which is not in the catalog
EntriesLost(h) ==
    /\ pc[h] = "done"
    /\ \E i \in 1..Len(saved_files[h]) : saved_files[h][i] \notin Range(catalog)

\* C6: entries of a finished batch are missing from the catalog only if the
\* server handles requests concurrently; handled one after the other, no
\* finished batch lacks an entry.
C6_LossOnlyWhenConcurrent == \A h \in Handlers : EntriesLost(h) => threaded

\* both batches read the catalog before either rewrote it, and the catalog now
\* lacks every entry of one of them
C6_Witness ==
    \E h, g \in Handlers :
        /\ h # g
        /\ pc[h] = "done"
        /\ pc[g] = "done"
        /\ existing_index[h] = existing_index[g]
        /\ catalog = existing_index[g] \o saved_files[g]
        /\ \A i \in 1..Len(saved_files[h]) : saved_files[h][i] \notin Range(catalog)

\* C7: the units of a batch are saved under pairwise different filenames, and
\* the file each catalog entry names holds that unit's own code.
C7_UniqueFilenames ==
    \A h \in Handlers : pc[h] # "idle" =>
        /\ \A i, j \in 1..Len(saved_files[h]) :
              i # j => saved_files[h][i].filename # saved_files[h][j].filename
        /\ \A i \in 1..Len(saved_files[h]) :
              files[saved_files[h][i].filename] = scripts[h][i].code

\* C8: the source_table and the target_table of every generated per-mapping
\* unit are non-empty after trimming (a placeholder stands in for an absent,
\* empty or blank name).
C8_TableNamesNonEmpty ==
    \A h \in Handlers : pc[h] # "idle" =>
        \A i \in 1..Len(mapping_data[h]) :
            /\ strip(saved_files[h][i].source_table) # <<>>
            /\ strip(saved_files[h][i].target_table) # <<>>

\* the entry a well-formed directive stands for
EntryOf(d) ==
    [type |-> "KEY", target_table |-> d.t, key_column |-> d.k,
     value_column |-> IF d.form = "double_colon" THEN <<":">> \o d.v ELSE d.v]

\* the entries of the well-formed directives of dl, in input order
RECURSIVE EntriesOf(_)
EntriesOf(dl) ==
    IF dl = <<>> THEN <<>>
    ELSE (IF Head(dl).form \in WellFormed THEN <<EntryOf(Head(dl))>> ELSE <<>>)
             \o EntriesOf(Tail(dl))

\* C9: a single directive KEY:T(K):V yields exactly one entry, of type KEY,
\* with target_table T, key_column K and value_column the text after the ')'
\* less one leading ':'.
C9_KeyDirectiveParsed ==
    (/\ call.fn = "process_related_inserts"
     /\ call.returned
     /\ Len(call.input) = 1
     /\ call.input[1].form \in {"full", "double_colon"})
    => call.ret = <<EntryOf(call.input[1])>>

C9_Witness ==
    /\ call.returned
    /\ call.arg = <<"K","E","Y",":","m","i","g","r","t","_","k","e","y","(","I","D",")",":","N","A","M","E">>
    /\ call.ret = << [type |-> "KEY", target_table |-> <<"m","i","g","r","t","_","k","e","y">>,
                      key_column |-> <<"I","D">>, value_column |-> <<"N","A","M","E">>] >>

\* C10: a directive that lacks '(' or ')' or whose key or value is empty after
\* trimming adds no entry, the well-formed directives of the same string yield
\* their entries in input order, every entry has a non-empty key_column and
\* value_column, and KEY:tbl(ID alone yields the empty list.
C10_MalformedDropped ==
    (call.fn = "process_related_inserts" /\ call.returned) =>
        /\ call.ret = EntriesOf(call.input)
        /\ \A i \in 1..Len(call.ret) :
              call.ret[i].key_column # <<>> /\ call.ret[i].value_column # <<>>
        /\ call.arg = <<"K","E","Y",":","t","b","l","(","I","D">> => call.ret = <<>>

C10_Witness ==
    /\ call.fn = "process_related_inserts"
    /\ call.returned
    /\ Len(call.input) = 2
    /\ call.input[1].form = "no_close"
    /\ call.input[2].form = "full"
    /\ call.ret = <<EntryOf(call.input[2])>>

\* C11: a clause SRC->DEST without a MAP part, with or without blanks around
\* SRC and DEST, yields for the trimmed SRC the transform [DEST trimmed, no
\* value map]; a clause without '->' yields no entry (and the call returns).
C11_SimpleClauseParsed ==
    (call.fn = "process_transformations" /\ call.returned) =>
        \A k \in 1..Len(call.input) :
            (\A j \in 1..Len(call.input) : j # k => call.input[j].src # call.input[k].src)
            => /\ call.input[k].form \in {"simple", "simple_spaced"} =>
                     /\ dict_has(call.ret, call.input[k].src)
                     /\ dict_get(call.ret, call.input[k].src) =
                            [dest_field |-> call.input[k].dest, has_value_maps |-> FALSE,
                             value_maps |-> <<>>]
               /\ call.input[k].form = "no_arrow" => ~dict_has(call.ret, call.input[k].src)

C11_Witness ==
    /\ call.fn = "process_transformations"
    /\ call.returned
    /\ Len(call.input) = 2
    /\ call.input[1].form = "no_arrow"
    /\ call.input[2].form = "simple_spaced"
    /\ call.input[1].src # call.input[2].src
    /\ call.ret = << <<call.input[2].src,
                       [dest_field |-> call.input[2].dest, has_value_maps |-> FALSE,
                        value_maps |-> <<>>]>> >>

\* the first rule of the type inference that a name assembled from pieces meets
FirstRule(n) == Min(n.pre.rule, Min(n.core.rule, n.suf.rule))

\* C12: the type of a source column depends on its name alone, case-insensitively,
\* first match wins: ID -> integer type (NUMBER), DATE or TIME -> temporal type
\* (DATE), AMOUNT, PRICE or COST -> numeric type (NUMBER), otherwise text type
\* (VARCHAR2(4000)); CUSTOMER_ID, ORDER_DATE, TOTAL_AMOUNT and STATUS get the
\* integer, temporal, numeric and text type.
C12_TypeByName ==
    (call.fn = "record_type" /\ call.returned) =>
        /\ FirstRule(call.input) = 1 => call.ret = NUMBER
        /\ FirstRule(call.input) = 2 => call.ret = DATE
        /\ FirstRule(call.input) = 3 => call.ret = NUMBER
        /\ FirstRule(call.input) = 4 => call.ret = VARCHAR2
        /\ call.arg = <<"C","U","S","T","O","M","E","R","_","I","D">> => call.ret = NUMBER
        /\ call.arg = <<"O","R","D","E","R","_","D","A","T","E">> => call.ret = DATE
        /\ call.arg = <<"T","O","T","A","L","_","A","M","O","U","N","T">> => call.ret = NUMBER
        /\ call.arg = <<"S","T","A","T","U","S">> => call.ret = VARCHAR2

\* a name that meets the ID rule and the DATE rule gets the type of the ID rule
C12_Witness ==
    /\ call.fn = "record_type"
    /\ call.returned
    /\ call.arg = <<"P","a","i","d","_","D","A","T","E">>
    /\ call.ret = NUMBER

\* C13: the unit generated for the row of the end-to-end scenario fetches with
\* the filter STATUS <> 'D', inserts for STATUS a case expression with the
\* branches A -> 1 and I -> 0 in that order and the original value as its else
\* branch, and has no related-insert block.
C13_SampleRowUnit ==
    \A h \in Handlers : pc[h] # "idle" =>
        \A i \in 1..Len(mapping_data[h]) :
            mapping_data[h][i] = SampleRow =>
                /\ scripts[h][i].code.where_condition = <<"S","T","A","T","U","S"," ","<",">"," ","'","D","'">>
                /\ Len(scripts[h][i].code.insert_values) = 3
                /\ scripts[h][i].code.insert_values[3] =
                       [kind |-> "case", src_col |-> <<"S","T","A","T","U","S">>,
                        branches |-> << << <<"A">>, <<"1">> >>, << <<"I">>, <<"0">> >> >>,
                        else_col |-> <<"S","T","A","T","U","S">>]
                /\ scripts[h][i].code.related_inserts = <<>>

\* the transformations of a row, as generate_fallback_code parses them
TransformationsOf(item) == process_transformations(Get(item, "transformations", <<>>))

\* C16: after normalization the source and the target columns of a row are
\* non-empty lists of trimmed, non-empty tokens; an empty source list becomes
\* the four placeholder columns, an empty target list becomes, per source
\* column and in source order, the transform's dest_field or else the source
\* column name.
C16_ColumnsNormalized ==
    \A h \in Handlers : pc[h] # "idle" =>
        \A i \in 1..Len(mapping_data[h]) :
            LET code == scripts[h][i].code
                item == mapping_data[h][i]
                given_source == clean_columns(split(Get(item, "source_columns", <<>>), COMMA))
                given_target == clean_columns(split(Get(item, "target_columns", <<>>), COMMA))
                tr == TransformationsOf(item)
            IN  /\ code.select_columns # <<>>
                /\ code.insert_columns # <<>>
                /\ \A j \in 1..Len(code.select_columns) :
                      code.select_columns[j] # <<>> /\ strip(code.select_columns[j]) = code.select_columns[j]
                /\ \A j \in 1..Len(code.insert_columns) :
                      code.insert_columns[j] # <<>> /\ strip(code.insert_columns[j]) = code.insert_columns[j]
                /\ given_source = <<>> => code.select_columns = PLACEHOLDER_COLUMNS
                /\ given_target = <<>> =>
                      /\ Len(code.insert_columns) = Len(code.select_columns)
                      /\ \A j \in 1..Len(code.select_columns) :
                            code.insert_columns[j] =
                                IF dict_has(tr, code.select_columns[j])
                                THEN dict_get(tr, code.select_columns[j]).dest_field
                                ELSE code.select_columns[j]

\* a source value that is a key of no value map
OtherValue == <<"z">>

\* C20: the value inserted for a source column with a value map is a case
\* expression over the map keys in insertion order that yields the mapped
\* value of the matching key and the original value when no key matches; a
\* source column without a value map is inserted unchanged.
C20_CaseExpression ==
    \A h \in Handlers : pc[h] # "idle" =>
        \A i \in 1..Len(mapping_data[h]) :
            LET code == scripts[h][i].code
                tr == TransformationsOf(mapping_data[h][i])
            IN  \A j \in 1..Len(code.insert_values) :
                    LET expr == code.insert_values[j]
                        col == code.select_columns[j]
                    IN  IF dict_has(tr, col) /\ dict_get(tr, col).has_value_maps
                        THEN /\ expr.kind = "case"
                             /\ dict_keys(expr.branches) = dict_keys(dict_get(tr, col).value_maps)
                             /\ \A k \in Range(dict_keys(dict_get(tr, col).value_maps)) :
                                   emitted_value(expr, k) =
                                       [ok |-> TRUE, value |-> dict_get(dict_get(tr, col).value_maps, k)]
                             /\ emitted_value(expr, OtherValue) = [ok |-> TRUE, value |-> OtherValue]
                        ELSE /\ expr.kind = "direct"
                             /\ expr.src_col = col
                             /\ emitted_value(expr, OtherValue) = [ok |-> TRUE, value |-> OtherValue]

\* the codes of the units the generator makes of the batch of handler h
GeneratorCodes(h) ==
    {all_scripts(mapping_data[h])[i].code : i \in 1..(Len(mapping_data[h]) + 1)}

\* C14: whatever the assist does (not loaded, returning any text, raising),
\* the units returned for a batch are those of the deterministic generator;
\* the assist's text is in its side file only, under a name no returned unit
\* has, and in no file a returned unit names.
C14_GeneratorAuthoritative ==
    pc[1] = "done" =>
        /\ scripts[1] = all_scripts(mapping_data[1])
        /\ saved_files[1] = file_infos(scripts[1], timestamp_of(clock))
        /\ \A i \in 1..Len(saved_files[1]) :
              /\ files[saved_files[1][i].filename] \in GeneratorCodes(1)
              /\ saved_files[1][i].filename # side_filename(timestamp_of(clock))
        /\ request.generated_code # NONE =>
              files[side_filename(timestamp_of(clock))] = request.generated_code

\* the assist returned a text and the batch has returned
C14_Witness ==
    /\ pc[1] = "done"
    /\ request.ai_model
    /\ request.generated_code \in AssistOutputs
    /\ side_filename(timestamp_of(clock)) \in DOMAIN files
    /\ Len(saved_files[1]) = 2

\* C15: a failing catalog rewrite is an error of that batch for the caller
\* (assist loaded or not), the generator is not run a second time, the unit
\* files the batch wrote are still there and the entries of earlier batches
\* are still in the catalog.
C15_CatalogFailurePropagates ==
    (pc[1] # "idle" /\ request.write_failures > 0) =>
        /\ pc[1] = "raised"
        /\ request.runs = 1
        /\ \A i \in 1..Len(saved_files[1]) : saved_files[1][i].filename \in DOMAIN files
        /\ IsPrefix(request.catalog_before, load_index(catalog))

\* the routine did op, with this outcome
HasEvent(op, ok) ==
    \E k \in 1..Len(unit_run.events) : unit_run.events[k].op = op /\ unit_run.events[k].ok = ok

\* the operations of the events of the routine so far
EventOps == {unit_run.events[k].op : k \in 1..Len(unit_run.events)}

\* C17: when the bulk fetch returns zero rows, the routine runs neither the
\* related-insert loop nor the main insert, reports that there is nothing to
\* migrate and ends normally, without raising or rolling back.
C17_ZeroRowsSkipped ==
    (unit_run.status # "none" /\ HasEvent("fetch", TRUE) /\ unit_run.rows = 0) =>
        /\ EventOps \cap {"merge", "commit_related", "insert", "commit_main",
                          "rollback", "report_error"} = {}
        /\ unit_run.status # "raised"
        /\ unit_run.phase \in {"nothing", "completed", "end"}
        /\ unit_run.status = "returned" =>
              unit_run.events = <<Ev("fetch", 0, 0, TRUE), Ev("report_found", 0, 0, TRUE),
                                  Ev("report_nothing", 0, 0, TRUE),
                                  Ev("report_completed", 0, 0, TRUE)>>

C17_Witness ==
    /\ unit_run.status = "returned"
    /\ unit_run.rows = 0
    /\ Len(unit_run.related_inserts) = 2
    /\ HasEvent("report_nothing", TRUE)

\* the MERGE attempts of the routine so far
Merges == SelectSeq(unit_run.events, LAMBDA e : e.op = "merge")

\* the position of the first event of this operation (0: none)
FirstEvent(op) ==
    IF op \in EventOps
    THEN CHOOSE k \in 1..Len(unit_run.events) :
            /\ unit_run.events[k].op = op
            /\ \A m \in 1..(k - 1) : unit_run.events[m].op # op
    ELSE 0

\* C18: with at least one directive and a non-empty fetched set, the loop
\* visits the rows once each, in order, and attempts every directive's upsert
\* for each row; an upsert that fails is reported and the loop goes on; the
\* commit of the loop comes after the last upsert, and the main insert only
\* after that commit.
C18_RelatedLoop ==
    (unit_run.status # "none" /\ unit_run.related_inserts # <<>> /\ unit_run.rows > 0) =>
        LET d == Len(unit_run.related_inserts)
        IN  /\ Len(Merges) <= unit_run.rows * d
            /\ \A k \in 1..Len(Merges) :
                  /\ Merges[k].row = ((k - 1) \div d) + 1
                  /\ Merges[k].directive = ((k - 1) % d) + 1
            /\ \A k \in 1..Len(unit_run.events) :
                  (unit_run.events[k].op = "merge" /\ ~unit_run.events[k].ok) =>
                      /\ k < Len(unit_run.events)
                      /\ unit_run.events[k + 1].op = "report_upsert_error"
            /\ "commit_related" \in EventOps =>
                  /\ Len(Merges) = unit_run.rows * d
                  /\ \A k \in 1..Len(unit_run.events) :
                        unit_run.events[k].op = "merge" => k < FirstEvent("commit_related")
            /\ "insert" \in EventOps =>
                  /\ HasEvent("commit_related", TRUE)
                  /\ FirstEvent("commit_related") < FirstEvent("insert")

\* two rows, two directives: the first upsert failed, all four were attempted,
\* and the routine ended normally
C18_Witness ==
    /\ unit_run.status = "returned"
    /\ unit_run.rows = 2
    /\ Len(Merges) = 4
    /\ ~Merges[1].ok
    /\ Merges[4].ok
    /\ HasEvent("commit_main", TRUE)

\* the statements whose failure reaches WHEN OTHERS of migrate_data
OuterOps == {"fetch", "commit_related", "insert", "commit_main"}

\* C19 as stated: any failure in the bulk fetch, the related-insert loop or the
\* main insert makes the routine roll back, report and raise again; the final
\* commit is executed only if no failure occurred.
C19_AnyFailureRaises ==
    /\ unit_run.status = "returned" =>
          \A k \in 1..Len(unit_run.events) : unit_run.events[k].ok
    /\ HasEvent("commit_main", TRUE) =>
          \A k \in 1..Len(unit_run.events) : unit_run.events[k].ok

\* C19, amended: a failure of the bulk fetch, of the commit that ends the
\* related-insert loop, of the main insert or of the final commit ends the
\* routine in its handler, which reports, rolls back and raises again; the
\* routine returns normally, and the final commit is done, only if none of
\* these failed. (A failing upsert inside the loop is caught there.)
C19_OuterFailureRaises ==
    LET failed == \E k \in 1..Len(unit_run.events) :
                      unit_run.events[k].op \in OuterOps /\ ~unit_run.events[k].ok
        n == Len(unit_run.events)
    IN  /\ failed => (unit_run.status = "raised" \/ unit_run.phase = "handler")
        /\ \A k \in 1..n :
              (unit_run.events[k].op \in OuterOps /\ ~unit_run.events[k].ok) =>
                  \A m \in (k + 1)..n : unit_run.events[m].op \in {"report_error", "rollback"}
        /\ unit_run.status = "raised" =>
              /\ failed
              /\ n >= 2
              /\ unit_run.events[n - 1] = Ev("report_error", 0, 0, TRUE)
              /\ unit_run.events[n] = Ev("rollback", 0, 0, TRUE)
        /\ unit_run.status = "returned" => ~failed
        /\ HasEvent("commit_main", TRUE) => ~failed

\* the main insert failed after an upsert had failed and been skipped
C19_Witness ==
    /\ unit_run.status = "raised"
    /\ HasEvent("merge", FALSE)
    /\ HasEvent("insert", FALSE)
    /\ HasEvent("rollback", TRUE)

\* CREATE OR REPLACE PACKAGE {package_name}: the definitions that the units of
\* scrs give to the routine called name; installing the units leaves one of them
definitions_of(scrs, name) ==
    { scrs[k].code : k \in { m \in 1..Len(scrs) : /\ scrs[m].code.kind = "unit"
                                                   /\ scrs[m].code.package_name = name } }

\* C21: distinct mapping rows of one batch yield distinct routine (package)
\* names, so no unit's routine definition replaces another unit's, and the
\* i-th invocation of the controller script runs the routine generated for
\* the i-th mapping row.
C21_DistinctRoutineNames ==
    \A h \in Handlers : pc[h] # "idle" =>
        /\ \A i, j \in 1..Len(mapping_data[h]) :
              mapping_data[h][i] # mapping_data[h][j] =>
                  scripts[h][i].code.package_name # scripts[h][j].code.package_name
        /\ run.status # "none" =>
              \A i \in 1..Len(run.invoked) :
                  definitions_of(scripts[h], run.invoked[i]) = {scripts[h][i].code}

\* two rows with different target tables were generated and both invoked
C21_Witness ==
    /\ pc[1] # "idle"
    /\ Len(mapping_data[1]) = 2
    /\ scripts[1][1].code.package_name # scripts[1][2].code.package_name
    /\ Len(run.invoked) = 2

====
